---- MODULE Spec2Model ----
(***************************************************************************)
(* State-machine model of src/DRV8711.h: the DRV8711SPI transport (chip    *)
(* select, one 16-bit exchange per call) and the DRV8711 register model    *)
(* (shadow images of CTRL, TORQUE, OFF, BLANK, DECAY, STATUS and the       *)
(* setters that change a bitfield and flush the whole register).           *)
(*                                                                         *)
(* Every public method is one action that models the whole call.  The      *)
(* platform calls a method makes (digitalWrite, pinMode, SPI calls) are     *)
(* operators on the record hw, applied in the order the code makes them.   *)
(***************************************************************************)
EXTENDS Integers, Sequences, FiniteSets, TLC

VARIABLES
    ctrl, torque, off, blank, decay, status,  \* DRV8711 shadow images (uint16_t)
    ssPin,     \* DRV8711SPI::ssPin (uint8_t, indeterminate until init)
    hw,        \* the platform: GPIO lines, SPI peripheral, and what was observed on them
    call,      \* the most recent DRV8711SPI call and its arguments
    dataOut    \* the value returned by the most recent readReg

vars == <<ctrl, torque, off, blank, decay, status, ssPin, hw, call, dataOut>>

shadows == <<ctrl, torque, off, blank, decay, status>>

(***************************************************************************)
(* Fixed-width unsigned arithmetic and the C bitwise operators.            *)
(***************************************************************************)
U8(x) == x % 256

U16(x) == x % 65536

\* The operators &, | and ^ on single bits, then bit by bit on 4-bit digits
\* (tabulated once), then digit by digit on operands of up to 16 bits.
AndBit == [x \in 0 .. 1 |-> [y \in 0 .. 1 |-> IF x = 1 /\ y = 1 THEN 1 ELSE 0]]

OrBit == [x \in 0 .. 1 |-> [y \in 0 .. 1 |-> IF x = 1 \/ y = 1 THEN 1 ELSE 0]]

XorBit == [x \in 0 .. 1 |-> [y \in 0 .. 1 |-> IF x # y THEN 1 ELSE 0]]

RECURSIVE Bitwise(_, _, _, _)
Bitwise(op, a, b, n) ==
    IF n = 0 THEN 0
    ELSE op[a % 2][b % 2] + 2 * Bitwise(op, a \div 2, b \div 2, n - 1)

And4 == [a \in 0 .. 15 |-> [b \in 0 .. 15 |-> Bitwise(AndBit, a, b, 4)]]

Or4 == [a \in 0 .. 15 |-> [b \in 0 .. 15 |-> Bitwise(OrBit, a, b, 4)]]

Xor4 == [a \in 0 .. 15 |-> [b \in 0 .. 15 |-> Bitwise(XorBit, a, b, 4)]]

Digits(table, a, b) ==
    table[a % 16][b % 16]
    + 16 * table[(a \div 16) % 16][(b \div 16) % 16]
    + 256 * table[(a \div 256) % 16][(b \div 256) % 16]
    + 4096 * table[a \div 4096][b \div 4096]

BitAnd(a, b) == Digits(And4, a, b)

BitOr(a, b) == Digits(Or4, a, b)

BitXor(a, b) == Digits(Xor4, a, b)

\* ~x as far as a uint16_t destination sees it: the low 16 bits of the complement.
Not16(x) == 65535 - U16(x)

Shl(x, n) == x * (2 ^ n)

\* Bit n of x, and the field x[hi:lo].
Bit(x, n) == (x \div (2 ^ n)) % 2

Field(x, hi, lo) == (x \div (2 ^ lo)) % (2 ^ (hi - lo + 1))

(***************************************************************************)
(* enum regAddr                                                            *)
(***************************************************************************)
CTRL == 0

TORQUE == 1

OFF == 2

BLANK == 3

DECAY == 4

STATUS == 7

(***************************************************************************)
(* Inputs.                                                                 *)
(***************************************************************************)
\* The GPIO lines of the platform: what an indeterminate ssPin may name.
Pins == {0, 1}

\* Pin numbers a caller passes as slaveSelectPin.
SlaveSelectPins == {1}

\* Register addresses passed to readReg / writeReg.
Addresses == 0 .. 7

\* Values passed to writeReg directly: a 12-bit value and values wider than 12 bits.
WriteValues == {\h0FF, \h10FF, \hF0FF}

\* Words the device may shift out during a read.
Replies == {0, \h0FFF}

StepModeArgs == {1, 2, 4, 8, 16, 32, 64, 128, 256, 0, 512}

GainArgs == {5, 10, 20, 40, 0, 255}

DeadTimeArgs == {400, 450, 650, 850, 0}

TorqueArgs == {0, 255}

OffTimeArgs == {0, 255}

PWMModeArgs == {0, 1}

(***************************************************************************)
(* The platform.  hw.pinLevel is each line's output latch, hw.pinModeOf    *)
(* its direction, hw.inTransaction whether an SPI transaction is open.     *)
(* hw.trace lists the platform calls of the most recent DRV8711SPI call,   *)
(* each with the line levels (pins) and the transaction state (txn) right  *)
(* after it, and the word of a transfer; hw.sent[a] is the                 *)
(* 12-bit payload of the most recent write word (bit 15 clear) whose       *)
(* address bits [14:12] were a, as <<payload>>, or NoWrite.                 *)
(***************************************************************************)
NoWrite == <<>>

digitalWrite(h, pin, value) ==
    [h EXCEPT !.pinLevel[pin] = value,
              !.trace = Append(@, [ev |-> "digitalWrite", word |-> 0,
                                   pins |-> [h.pinLevel EXCEPT ![pin] = value],
                                   txn |-> h.inTransaction])]

pinMode(h, pin, mode) ==
    [h EXCEPT !.pinModeOf[pin] = mode,
              !.trace = Append(@, [ev |-> "pinMode", word |-> 0,
                                   pins |-> h.pinLevel, txn |-> h.inTransaction])]

SPIbeginTransaction(h) ==
    [h EXCEPT !.inTransaction = TRUE,
              !.trace = Append(@, [ev |-> "beginTransaction", word |-> 0,
                                   pins |-> h.pinLevel, txn |-> TRUE])]

SPIendTransaction(h) ==
    [h EXCEPT !.inTransaction = FALSE,
              !.trace = Append(@, [ev |-> "endTransaction", word |-> 0,
                                   pins |-> h.pinLevel, txn |-> FALSE])]

SPItransfer16(h, word) ==
    [h EXCEPT !.sent = IF word < 32768
                       THEN [@ EXCEPT ![word \div 4096] = <<word % 4096>>]
                       ELSE @,
              !.trace = Append(@, [ev |-> "transfer16", word |-> word,
                                   pins |-> h.pinLevel, txn |-> h.inTransaction])]

\* The start of a DRV8711SPI call: the trace of the previous call is dropped.
Entered(h) == [h EXCEPT !.trace = <<>>]

(***************************************************************************)
(* DRV8711SPI                                                              *)
(***************************************************************************)
transfer(h, value) == SPItransfer16(h, U16(value))

selectChip(h, pin) == SPIbeginTransaction(digitalWrite(h, pin, "HIGH"))

\* (variant: chip-select released before the transaction is ended)
deselectChipEarly(h, pin) == SPIendTransaction(digitalWrite(h, pin, "LOW"))

deselectChip(h, pin) == digitalWrite(SPIendTransaction(h), pin, "LOW")

\* The word readReg transmits: (0x8 | address) << 12.
ReadWord(address) == Shl(BitOr(8, address), 12)

\* (variant: the address shifted by 8 instead of 12)
WriteWordShift8(address, value) == BitOr(Shl(address, 8), value)

\* The word writeReg transmits: (address << 12) | value.
WriteWord(address, value) == BitOr(Shl(address, 12), value)

readRegHw(h, pin, address) ==
    deselectChip(transfer(selectChip(h, pin), ReadWord(address)), pin)

writeRegHw(h, pin, address, value) ==
    deselectChip(transfer(selectChip(h, pin), WriteWord(address, value)), pin)

initHw(h, pin) == pinMode(digitalWrite(h, pin, "LOW"), pin, "OUTPUT")

\* DRV8711SPI::init(slaveSelectPin)
driverInit(slaveSelectPin) ==
    /\ ssPin' = slaveSelectPin
    /\ hw' = initHw(Entered(hw), ssPin')
    /\ call' = [op |-> "init", address |-> 0, value |-> 0]
    /\ UNCHANGED dataOut

\* DRV8711SPI::readReg(address)
driverReadReg(address) ==
    /\ hw' = readRegHw(Entered(hw), ssPin, address)
    /\ call' = [op |-> "readReg", address |-> address, value |-> 0]
    /\ dataOut' \in Replies
    /\ UNCHANGED ssPin

\* DRV8711SPI::writeReg(address, value)
driverWriteReg(address, value) ==
    /\ hw' = writeRegHw(Entered(hw), ssPin, address, value)
    /\ call' = [op |-> "writeReg", address |-> address, value |-> value]
    /\ UNCHANGED <<ssPin, dataOut>>

(***************************************************************************)
(* DRV8711: the new image each setter computes.                            *)
(***************************************************************************)
enableDriverCtrl(c) == U16(BitOr(c, 1))

\* (variant: only ENBL cleared)
disableDriverCtrlEnblOnly(c) == U16(BitAnd(c, Not16(1)))

disableDriverCtrl(c) == U16(BitAnd(c, 0))

flipDirectionCtrl(c) == U16(BitXor(c, Shl(1, 1)))

stepCtrl(c) == U16(BitOr(c, Shl(1, 2)))

StepModeCode(mode) ==
    CASE mode = 1   -> \b0000
      [] mode = 2   -> \b0001
      [] mode = 4   -> \b0010
      [] mode = 8   -> \b0011
      [] mode = 16  -> \b0100
      [] mode = 32  -> \b0101
      [] mode = 64  -> \b0110
      [] mode = 128 -> \b0111
      [] mode = 256 -> \b1000
      [] OTHER      -> \b0010

\* (variant: the old field is not cleared before the new code is or-ed in)
setStepModeCtrlNoClear(c, mode) ==
    U16(BitOr(c, Shl(StepModeCode(U16(mode)), 3)))

\* (variant: a mask one bit too wide, which also clears RSTEP)
setStepModeCtrlWideMask(c, mode) ==
    U16(BitOr(BitAnd(c, \b111110000011), Shl(StepModeCode(U16(mode)), 3)))

\* mode is the caller's argument, converted to the uint16_t parameter.
setStepModeCtrl(c, mode) ==
    U16(BitOr(BitAnd(c, \b111110000111), Shl(StepModeCode(U16(mode)), 3)))

setExternalStallDetectionCtrl(c) == U16(BitOr(c, Shl(1, 7)))

setInternalStallDetectionCtrl(c) == U16(BitAnd(c, Not16(Shl(1, 7))))

\* (variant: unrecognised gains fall back to gain 5)
GainCodeDefault5(gain) ==
    CASE gain = 5  -> \b00
      [] gain = 10 -> \b01
      [] gain = 20 -> \b10
      [] gain = 40 -> \b11
      [] OTHER     -> \b00

GainCode(gain) ==
    CASE gain = 5  -> \b00
      [] gain = 10 -> \b01
      [] gain = 20 -> \b10
      [] gain = 40 -> \b11
      [] OTHER     -> \b10

\* gain is the caller's argument, converted to the uint8_t parameter.
setGainCtrl(c, gain) ==
    U16(BitOr(BitAnd(c, \b110011111111), Shl(GainCode(U8(gain)), 8)))

\* dTime is the value of the uint8_t parameter; the case labels are the
\* enum's 400, 450, 650 and 850.
DeadTimeCode(dTime) ==
    CASE dTime = 400 -> \b00
      [] dTime = 450 -> \b01
      [] dTime = 650 -> \b10
      [] dTime = 850 -> \b11
      [] OTHER       -> \b11

\* dTime is the caller's argument, converted to the uint8_t parameter.
setDeadTimeCtrl(c, dTime) ==
    U16(BitOr(BitAnd(c, \b110011111111), Shl(DeadTimeCode(U8(dTime)), 10)))

setTorqueImage(t, torqueValue) ==
    U16(BitOr(BitAnd(t, \b11100000000), U8(torqueValue)))

setOffTimeImage(o, offTime) ==
    U16(BitOr(BitAnd(o, \b100000000), U8(offTime)))

\* (variant: PWMMODE set from the argument instead of toggled)
setPWMModeImageSet(o, pwmMode) ==
    IF U16(pwmMode) # 0 THEN U16(BitOr(o, Shl(1, 8)))
                        ELSE U16(BitAnd(o, Not16(Shl(1, 8))))

\* pwmMode is never read.
setPWMModeImage(o, pwmMode) == U16(BitXor(o, Shl(1, 8)))

(***************************************************************************)
(* DRV8711: the flushes and the public methods.                            *)
(***************************************************************************)
writeCTRL == driverWriteReg(CTRL, ctrl')

\* (variant: the flush made before the image is updated)
writeTORQUEStale == driverWriteReg(TORQUE, torque)

writeTORQUE == driverWriteReg(TORQUE, torque')

writeOFF == driverWriteReg(OFF, off')

\* DRV8711::init(slaveSelectPin)
init(slaveSelectPin) ==
    /\ driverInit(slaveSelectPin)
    /\ UNCHANGED shadows

enableDriver ==
    /\ ctrl' = enableDriverCtrl(ctrl)
    /\ writeCTRL
    /\ UNCHANGED <<torque, off, blank, decay, status>>

disableDriver ==
    /\ ctrl' = disableDriverCtrl(ctrl)
    /\ writeCTRL
    /\ UNCHANGED <<torque, off, blank, decay, status>>

flipDirection ==
    /\ ctrl' = flipDirectionCtrl(ctrl)
    /\ writeCTRL
    /\ UNCHANGED <<torque, off, blank, decay, status>>

step ==
    /\ ctrl' = stepCtrl(ctrl)
    /\ writeCTRL
    /\ UNCHANGED <<torque, off, blank, decay, status>>

setStepMode(mode) ==
    /\ ctrl' = setStepModeCtrl(ctrl, mode)
    /\ writeCTRL
    /\ UNCHANGED <<torque, off, blank, decay, status>>

setExternalStallDetection ==
    /\ ctrl' = setExternalStallDetectionCtrl(ctrl)
    /\ writeCTRL
    /\ UNCHANGED <<torque, off, blank, decay, status>>

setInternalStallDetection ==
    /\ ctrl' = setInternalStallDetectionCtrl(ctrl)
    /\ writeCTRL
    /\ UNCHANGED <<torque, off, blank, decay, status>>

setGain(gain) ==
    /\ ctrl' = setGainCtrl(ctrl, gain)
    /\ writeCTRL
    /\ UNCHANGED <<torque, off, blank, decay, status>>

setDeadTime(dTime) ==
    /\ ctrl' = setDeadTimeCtrl(ctrl, dTime)
    /\ writeCTRL
    /\ UNCHANGED <<torque, off, blank, decay, status>>

setTorque(torqueValue) ==
    /\ torque' = setTorqueImage(torque, torqueValue)
    /\ writeTORQUE
    /\ UNCHANGED <<ctrl, off, blank, decay, status>>

setOffTime(offTime) ==
    /\ off' = setOffTimeImage(off, offTime)
    /\ writeOFF
    /\ UNCHANGED <<ctrl, torque, blank, decay, status>>

setPWMMode(pwmMode) ==
    /\ off' = setPWMModeImage(off, pwmMode)
    /\ writeOFF
    /\ UNCHANGED <<ctrl, torque, blank, decay, status>>

(***************************************************************************)
(* Specifications.                                                         *)
(***************************************************************************)
\* The state right after DRV8711's constructor.  ssPin is not initialised
\* by any constructor: it holds some pin number.
Init ==
    /\ ctrl = \hC10
    /\ torque = \h1FF
    /\ off = \h30
    /\ blank = \h80
    /\ decay = \h110
    /\ status = \h0
    /\ ssPin \in Pins
    /\ hw = [pinLevel      |-> [p \in Pins |-> "LOW"],
             pinModeOf     |-> [p \in Pins |-> "INPUT"],
             inTransaction |-> FALSE,
             trace         |-> <<>>,
             sent          |-> [a \in Addresses |-> NoWrite]]
    /\ call = [op |-> "none", address |-> 0, value |-> 0]
    /\ dataOut = 0

\* The register model: a freshly constructed DRV8711 driven through its
\* public setters.
Next ==
    \/ enableDriver
    \/ disableDriver
    \/ flipDirection
    \/ step
    \/ \E m \in StepModeArgs : setStepMode(m)
    \/ setExternalStallDetection
    \/ setInternalStallDetection
    \/ \E g \in GainArgs : setGain(g)
    \/ \E d \in DeadTimeArgs : setDeadTime(d)
    \/ \E t \in TorqueArgs : setTorque(t)
    \/ \E o \in OffTimeArgs : setOffTime(o)
    \/ \E m \in PWMModeArgs : setPWMMode(m)

Spec == Init /\ [][Next]_vars

\* The transport: DRV8711::init and the calls a program makes on the public
\* member driver.
readReg(address) == driverReadReg(address) /\ UNCHANGED shadows

writeReg(address, value) == driverWriteReg(address, value) /\ UNCHANGED shadows

NextSPI ==
    \/ \E p \in SlaveSelectPins : init(p)
    \/ \E a \in Addresses : readReg(a)
    \/ \E a \in Addresses, v \in WriteValues : writeReg(a, v)

SpecSPI == Init /\ [][NextSPI]_vars

(***************************************************************************)
(* Properties of the transport (SpecSPI).                                  *)
(***************************************************************************)
\* init has run: only init makes a line an output, and it makes ssPin one.
Initialised == hw.pinModeOf[ssPin] = "OUTPUT"

\* The platform calls of the most recent readReg / writeReg.
LastWord == hw.trace[3].word

TransferEvents == {i \in 1 .. Len(hw.trace) : hw.trace[i].ev = "transfer16"}

\* C2: after init, every readReg and writeReg call makes exactly these
\* platform calls in this order: chip-select driven to its active level
\* (HIGH), SPI transaction begun, one 16-bit transfer, SPI transaction ended,
\* chip-select driven back to its inactive level (LOW).  No transfer happens
\* while chip-select is inactive, and chip-select is inactive (and no
\* transaction open) after init and between any two calls.
C2_SelectTransferDeselect ==
    Initialised =>
        /\ hw.pinLevel[ssPin] = "LOW"
        /\ ~hw.inTransaction
        /\ \A i \in TransferEvents :
               hw.trace[i].pins[ssPin] = "HIGH" /\ hw.trace[i].txn
        /\ call.op \in {"readReg", "writeReg"} =>
               /\ Len(hw.trace) = 5
               /\ hw.trace[1].ev = "digitalWrite"
               /\ hw.trace[1].pins[ssPin] = "HIGH" /\ ~hw.trace[1].txn
               /\ hw.trace[2].ev = "beginTransaction"
               /\ hw.trace[2].pins[ssPin] = "HIGH" /\ hw.trace[2].txn
               /\ hw.trace[3].ev = "transfer16"
               /\ hw.trace[4].ev = "endTransaction"
               /\ hw.trace[4].pins[ssPin] = "HIGH" /\ ~hw.trace[4].txn
               /\ hw.trace[5].ev = "digitalWrite"
               /\ hw.trace[5].pins[ssPin] = "LOW" /\ ~hw.trace[5].txn
               /\ TransferEvents = {3}

\* A read of STATUS made after init, followed through its five platform calls.
C2_Witness ==
    /\ Initialised
    /\ call = [op |-> "readReg", address |-> STATUS, value |-> 0]
    /\ Len(hw.trace) = 5
    /\ LastWord = \hF000

\* C3: for every address a in 0..7 and every 16-bit value v, writeReg(a, v)
\* transmits the word (a << 12) | (v & 0xFFF): bits [15:12] are a and bits
\* [11:0] are the low 12 bits of v.
C3_WriteWordMasksValue ==
    call.op = "writeReg" =>
        /\ LastWord = call.address * 4096 + (call.value % 4096)
        /\ Field(LastWord, 15, 12) = call.address
        /\ Field(LastWord, 11, 0) = Field(call.value, 11, 0)

(***************************************************************************)
(* Properties of the register model (Spec).                                *)
(***************************************************************************)
\* x with the field x[hi:lo] cleared.
Clear(x, hi, lo) == x - Field(x, hi, lo) * (2 ^ lo)

\* This step flushed register r: the call was writeReg(r, image) and the word
\* on the wire was image itself, addressed to r.
Flushed(r, image) ==
    /\ call' = [op |-> "writeReg", address |-> r, value |-> image]
    /\ hw'.trace[3].word = r * 4096 + image
    /\ hw'.sent[r] = <<image>>

\* The shadow image of register r, and the power-on default the claims name.
C1_Shadow(r) ==
    CASE r = CTRL   -> ctrl
      [] r = TORQUE -> torque
      [] r = OFF    -> off
      [] r = BLANK  -> blank
      [] r = DECAY  -> decay

C1_PowerOnDefault(r) ==
    CASE r = CTRL   -> \hC10
      [] r = TORQUE -> \h1FF
      [] r = OFF    -> \h30
      [] r = BLANK  -> \h80
      [] r = DECAY  -> \h110

\* C1: after any sequence of setter calls on a freshly constructed DRV8711,
\* the shadow image of each of CTRL, TORQUE, OFF, BLANK, DECAY equals the
\* payload of the most recent write word sent to that register's address, or
\* the register's power-on default if no write to it has been sent.
C1_ShadowIsLastWrite ==
    \A r \in {CTRL, TORQUE, OFF, BLANK, DECAY} :
        C1_Shadow(r) = IF hw.sent[r] = NoWrite
                       THEN C1_PowerOnDefault(r)
                       ELSE hw.sent[r][1]

\* CTRL, TORQUE and OFF have each been written with a value other than the
\* default; BLANK and DECAY never.
C1_Witness ==
    /\ hw.sent[CTRL] = <<ctrl>> /\ ctrl # \hC10
    /\ hw.sent[TORQUE] = <<torque>> /\ torque # \h1FF
    /\ hw.sent[OFF] = <<off>> /\ off # \h30
    /\ hw.sent[BLANK] = NoWrite /\ hw.sent[DECAY] = NoWrite

\* The step-mode code table, and what setStepMode(m) is to make of an image.
C4_Table ==
    (1 :> 0) @@ (2 :> 1) @@ (4 :> 2) @@ (8 :> 3) @@ (16 :> 4) @@
    (32 :> 5) @@ (64 :> 6) @@ (128 :> 7) @@ (256 :> 8)

C4_Post(old, new, m) ==
    /\ Field(new, 6, 3) = IF m \in DOMAIN C4_Table THEN C4_Table[m] ELSE 2
    /\ Clear(new, 6, 3) = Clear(old, 6, 3)

CtrlFlushed ==
    (call.op = "writeReg" /\ call.address = CTRL) =>
        /\ call.value = ctrl
        /\ LastWord = ctrl
        /\ hw.sent[CTRL] = <<ctrl>>

\* C4: from every reachable CTRL image, setStepMode(m) sets CTRL bits [6:3]
\* to the table code of m when m is one of 1, 2, 4, ..., 256 and to 0010 (the
\* code of 4) for any other m, and leaves every CTRL bit outside [6:3]
\* unchanged; the new image is the value written to the device (whenever
\* the last call flushed CTRL, the value passed, the payload on the wire and
\* the shadow are the same).
C4_SetStepMode ==
    /\ \A m \in StepModeArgs : C4_Post(ctrl, setStepModeCtrl(ctrl, m), m)
    /\ CtrlFlushed

\* Step mode 256 (code 1000) is in CTRL and on the wire.
C4_Witness ==
    /\ Field(ctrl, 6, 3) = 8
    /\ call = [op |-> "writeReg", address |-> CTRL, value |-> ctrl]
    /\ LastWord = ctrl

\* The dead-time code table, and what setDeadTime(d) is to make of an image.
C5_Table == (400 :> 0) @@ (450 :> 1) @@ (650 :> 2) @@ (850 :> 3)

C5_Post(old, new, d) ==
    IF d \in DOMAIN C5_Table
    THEN /\ Field(new, 11, 10) = C5_Table[d]
         /\ Clear(new, 11, 10) = Clear(old, 11, 10)
    ELSE new = setDeadTimeCtrl(old, 850)

\* C5: setDeadTime(d) for d in {400, 450, 650, 850} sets CTRL bits [11:10]
\* to the code of d (00, 01, 10, 11) and changes no CTRL bit outside [11:10];
\* for any other d the result equals the result of setDeadTime(850).
C5_SetDeadTime ==
    [][\A d \in DeadTimeArgs : setDeadTime(d) => C5_Post(ctrl, ctrl', d)]_vars

\* The gain code table, and what setGain(g) is to make of an image.
C6_Table == (5 :> 0) @@ (10 :> 1) @@ (20 :> 2) @@ (40 :> 3)

C6_Post(old, new, g) ==
    IF g \in DOMAIN C6_Table
    THEN /\ Field(new, 9, 8) = C6_Table[g]
         /\ Clear(new, 9, 8) = Clear(old, 9, 8)
    ELSE new = setGainCtrl(old, 20)

\* C6: from every reachable CTRL image, setGain(g) for g in {5, 10, 20, 40}
\* sets CTRL bits [9:8] to the code of g (00, 01, 10, 11) and changes no CTRL
\* bit outside [9:8]; for any other g the new image is the one setGain(20)
\* produces from the same image.
C6_SetGain == \A g \in GainArgs : C6_Post(ctrl, setGainCtrl(ctrl, g), g)

\* Gain 40 (code 11) is in CTRL and on the wire.
C6_Witness ==
    /\ Field(ctrl, 9, 8) = 3
    /\ call = [op |-> "writeReg", address |-> CTRL, value |-> ctrl]
    /\ hw.sent[CTRL] = <<ctrl>>

\* C7: flipDirection() inverts CTRL bit 1 and a second flipDirection() gives
\* back the CTRL image from before the first; setPWMMode(x) inverts OFF bit 8
\* whatever x is, and a following setPWMMode(y), for any y, gives back the
\* OFF image from before the first.
C7_Toggles ==
    [][/\ flipDirection =>
              /\ Bit(ctrl', 1) # Bit(ctrl, 1)
              /\ flipDirectionCtrl(ctrl') = ctrl
       /\ \A x \in PWMModeArgs :
              setPWMMode(x) =>
                  /\ Bit(off', 8) # Bit(off, 8)
                  /\ \A y \in PWMModeArgs : setPWMModeImage(off', y) = off]_vars

\* RDIR and PWMMODE are both set (the defaults have them clear), and the
\* last call flushed OFF.
C7_Witness ==
    /\ Bit(ctrl, 1) = 1
    /\ Bit(off, 8) = 1
    /\ call = [op |-> "writeReg", address |-> OFF, value |-> off]

\* C8: disableDriver() sets the whole CTRL shadow to 0 and writes the word
\* 0x0000 to the CTRL address, so the step-mode, gain, dead-time, RDIR, RSTEP
\* and EXSTALL fields are cleared together with ENBL; an enableDriver() right
\* after it leaves CTRL = 0x001.
C8_DisableClearsAll ==
    [][/\ disableDriver =>
              /\ ctrl' = 0
              /\ Flushed(CTRL, 0)
              /\ hw'.trace[3].word = 0
              /\ enableDriverCtrl(ctrl') = 1
       /\ (enableDriver /\ ctrl = 0) => (ctrl' = 1 /\ Flushed(CTRL, 1))]_vars

\* CTRL is 0x001 in the shadow and on the wire: the dead-time field, which
\* only disableDriver clears, is 0, and ENBL was set afterwards.
C8_Witness ==
    /\ ctrl = 1
    /\ hw.sent[CTRL] = <<1>>
    /\ call = [op |-> "writeReg", address |-> CTRL, value |-> 1]

\* C9: once RSTEP (CTRL bit 2, which only step() sets) is 1 in the shadow, it
\* stays 1 through every operation other than disableDriver(), and every
\* CTRL write made by such an operation transmits a word with RSTEP = 1.
C9_RstepSticks ==
    [][(Bit(ctrl, 2) = 1 /\ ~disableDriver) =>
           /\ Bit(ctrl', 2) = 1
           /\ call'.address = CTRL => Bit(hw'.trace[3].word, 2) = 1]_vars

\* RSTEP is still set in a CTRL image that left the device enabled, in
\* external stall detection, 1/256 step and gain 40, and is on the wire.
C9_Witness ==
    /\ Bit(ctrl, 2) = 1
    /\ Bit(ctrl, 0) = 1 /\ Bit(ctrl, 7) = 1
    /\ Field(ctrl, 6, 3) = 8 /\ Field(ctrl, 9, 8) = 3
    /\ call = [op |-> "writeReg", address |-> CTRL, value |-> ctrl]
    /\ Bit(LastWord, 2) = 1

\* C10: the shadow images stay within their register widths (ctrl <= 0xFFF,
\* torque <= 0x7FF, off <= 0x1FF), so every word a setter emits has bits
\* [15:12] equal to the address of the register it flushes (0, 1 or 2), never
\* another address and never the read flag (bit 15).
C10_WidthsAndAddresses ==
    /\ ctrl <= \hFFF
    /\ torque <= \h7FF
    /\ off <= \h1FF
    /\ call.op = "writeReg" =>
           /\ call.address \in {CTRL, TORQUE, OFF}
           /\ call.value = C1_Shadow(call.address)
           /\ Field(LastWord, 15, 12) = call.address
           /\ Bit(LastWord, 15) = 0
           /\ Field(LastWord, 11, 0) = call.value

\* TORQUE holds its largest reachable image and went out addressed to 1.
C10_Witness ==
    /\ torque = \h1FF
    /\ call = [op |-> "writeReg", address |-> TORQUE, value |-> \h1FF]
    /\ LastWord = \h11FF
    /\ Bit(off, 8) = 1

====
